---- MODULE Spec2Model ----
(***************************************************************************)
(* GPIO module of stm32-hal (src/src/gpio.rs).                             *)
(*                                                                         *)
(* The peripherals are register files: every register is a function from   *)
(* its field positions to the field values, as the PAC exposes them.  An   *)
(* operation of the module is the sequence of register accesses its code   *)
(* performs (`modify` is a read of the whole register followed by a write  *)
(* of the whole register with one field replaced).  The main flow of the   *)
(* firmware runs a call either in one step (sequential specifications) or  *)
(* access by access with interrupt handlers in between (SpecIrq).          *)
(***************************************************************************)
EXTENDS Integers, Sequences, FiniteSets

VARIABLES
    family,     \* the target family the crate is built for
    pinA, pinB, \* the two Pin values of the firmware
    hw,         \* the register files
    pc,         \* accesses the current call of the main flow has still to make
    tmp,        \* register value read by the `modify` in progress
    primask,    \* interrupts are masked (inside interrupt::free)
    panicked,   \* a panic has stopped the firmware
    trace,      \* register accesses of the last call of the main flow
    pulses,     \* per port, how often its reset bit has been set
    made,       \* ports on which a Pin::new has returned
    last,       \* the last call of the main flow
    calls,      \* number of calls the main flow has made
    hlast,      \* the last call of an interrupt handler
    irqs,       \* number of interrupt handlers that have run
    obs,        \* what an interrupt handler has read of a pin's configuration
    ext,        \* per pin of the firmware, the level the board puts on the pin
    ret,        \* the value the last read of the input data register returned
    hpos        \* accesses the interrupted call had made when a handler ran

vars == <<family, pinA, pinB, hw, pc, tmp, primask, panicked, trace, pulses,
          made, last, calls, hlast, irqs, obs, ext, ret, hpos>>

----------------------------------------------------------------------------
(* Bounds of the model. *)

\* number of calls the main flow makes
MaxCalls == 2
\* number of interrupt handlers that run
MaxIrqs == 1
\* pin numbers handed to the module are 0 .. MaxPinInput (u8 in the source)
MaxPinInput == 16
\* alternate function numbers handed to the module are 0 .. MaxAltInput
MaxAltInput == 16

----------------------------------------------------------------------------
(* Target families (cargo features) and the ports each one has. *)

Ports == {"A", "B", "C", "D", "E", "F", "G", "H"}

\* "l4" stands for the families of the last cfg_if branch that have no
\* port G/H (l4, g4); "l5" is the one family of that branch that has them.
Families == {"f3", "h7", "f4", "g0", "l5", "l4"}

PortsOf(fam) ==
    CASE fam = "g0" -> {"A", "B", "C", "D", "F"}
      [] fam = "l4" -> {"A", "B", "C", "D", "E", "F"}
      [] OTHER      -> Ports

\* bit position of a port in the RCC enable and reset registers
PortBit(p) ==
    CASE p = "A" -> 0 [] p = "B" -> 1 [] p = "C" -> 2 [] p = "D" -> 3
      [] p = "E" -> 4 [] p = "F" -> 5 [] p = "G" -> 6 [] p = "H" -> 7

cr_val(p) ==
    CASE p = "A" -> 0 [] p = "B" -> 1 [] p = "C" -> 2 [] p = "D" -> 3
      [] p = "E" -> 4 [] p = "F" -> 5 [] p = "G" -> 6 [] p = "H" -> 7

regs(port) == port

----------------------------------------------------------------------------
(* Values of the enumerations. *)

Input  == [k |-> "Input",  f |-> 0]
Output == [k |-> "Output", f |-> 0]
Analog == [k |-> "Analog", f |-> 0]
Alt(n) == [k |-> "Alt",    f |-> n]

PinModeVal(m) ==
    CASE m.k = "Input"  -> 0
      [] m.k = "Output" -> 1
      [] m.k = "Alt"    -> 2
      [] m.k = "Analog" -> 3

PinModes == {Input, Output, Analog} \cup {Alt(n) : n \in 0..MaxAltInput}

OutputTypes  == {0, 1}
OutputSpeeds == {0, 1, 2, 3}
Pulls        == {0, 1, 2}
PinStates    == {"High", "Low"}
CfgLocks     == {0, 1}
Edges        == {"Rising", "Falling"}

----------------------------------------------------------------------------
(* The register files. *)

Zero(n) == [i \in 0..(n - 1) |-> 0]

GpioBlock ==
    [moder |-> Zero(16), otyper |-> Zero(16), ospeedr |-> Zero(16),
     pupdr |-> Zero(16), lckr |-> Zero(16), afrl |-> Zero(8), afrh |-> Zero(8),
     odr |-> Zero(16)]

\* the register files after reset; ps are the ports whose block is kept
HwInit(ps) ==
    [gpio   |-> [p \in ps |-> GpioBlock],
     rcc    |-> [en |-> Zero(8), rst |-> Zero(8)],
     exti   |-> [imr |-> Zero(16), rtsr |-> Zero(16), ftsr |-> Zero(16),
                 exticr1 |-> Zero(4), exticr2 |-> Zero(4),
                 exticr3 |-> Zero(4), exticr4 |-> Zero(4)],
     syscfg |-> [exticr1 |-> Zero(4), exticr2 |-> Zero(4),
                 exticr3 |-> Zero(4), exticr4 |-> Zero(4)],
     pwr    |-> [cr2 |-> Zero(1)]]

RegGet(h, per, port, reg) ==
    IF per = "gpio" THEN h.gpio[port][reg] ELSE h[per][reg]

RegPut(h, per, port, reg, v) ==
    IF per = "gpio" THEN [h EXCEPT !.gpio[port][reg] = v]
                    ELSE [h EXCEPT ![per][reg] = v]

\* A port whose reset bit is written 1 has its register block put back to
\* the reset values.
PortReset(h, rstval) ==
    [h EXCEPT !.gpio = [p \in DOMAIN h.gpio |->
        IF rstval[PortBit(p)] = 1 THEN GpioBlock ELSE h.gpio[p]]]

\* GPIOx_BSRR: bit k (k < 16) sets output k, bit k + 16 resets output k.
BsrrEffect(odr, bit) ==
    IF bit < 16 THEN [odr EXCEPT ![bit] = 1] ELSE [odr EXCEPT ![bit - 16] = 0]

\* the field values of GPIOx_MODER and GPIOx_OTYPER that make a pin a
\* push-pull output
IsPushPullOutput(h, port, pin) ==
    h.gpio[port].moder[pin] = 1 /\ h.gpio[port].otyper[pin] = 0

\* GPIOx_IDR bit of a pin: the level on the pin.  An output drives the
\* pin from its output data bit (an open-drain output only when that bit is
\* 0); in analog mode the input reads 0; otherwise the level is the one the
\* board (or the peripheral of an alternate function) puts on the pin.
Idr(h, e, port, pin) ==
    LET m   == h.gpio[port].moder[pin]
        out == h.gpio[port].odr[pin]
        lvl == IF [port |-> port, pin |-> pin] \in DOMAIN e
               THEN e[[port |-> port, pin |-> pin]] ELSE 0
    IN  CASE m = 1 /\ h.gpio[port].otyper[pin] = 0 -> out
          [] m = 1 /\ out = 0                        -> 0
          [] m = 3                                   -> 0
          [] OTHER                                   -> lvl

----------------------------------------------------------------------------
(* Register accesses. *)

Ins(k, per, port, reg, fld, val) ==
    [k |-> k, per |-> per, port |-> port, reg |-> reg, fld |-> fld, val |-> val]

Rd(per, port, reg)           == Ins("read", per, port, reg, 0, 0)
Wr(per, port, reg, fld, val) == Ins("write", per, port, reg, fld, val)
\* reg.modify(|_, w| w.field().bits(val))
Modify(per, port, reg, fld, val) ==
    <<Rd(per, port, reg), Wr(per, port, reg, fld, val)>>
\* reg.write(|w| w.bits(1 << bit))
Store(port, reg, bit)        == Ins("store", "gpio", port, reg, bit, 1)
\* if reg.read().field().bit_is_clear() { the next n accesses }
IfClear(per, reg, fld, n)    == Ins("ifclear", per, "-", reg, fld, n)
\* reg.read().idr<pin>().bit_is_set()
RdIdr(port, pin)             == Ins("input", "gpio", port, "idr", pin, 0)
\* if <the bit read> { the next n accesses } else { the accesses after them }
IfSet(n)                     == Ins("ifset", "-", "-", "-", 0, n)
\* if val { PinState::High } else { PinState::Low }
AsState                      == Ins("asstate", "-", "-", "-", 0, 0)
Panic                        == Ins("panic", "-", "-", "-", 0, 0)
\* assert!(ok)
Check(ok)                    == IF ok THEN <<>> ELSE <<Panic>>
\* cortex_m::interrupt::free
CsEnter                      == Ins("cs_enter", "-", "-", "-", 0, 0)
CsExit                       == Ins("cs_exit", "-", "-", "-", 0, 0)

BoolBit(b) == IF b THEN 1 ELSE 0

----------------------------------------------------------------------------
(* Execution of register accesses.  A machine state s holds the register   *)
(* files, the value latched by the last read, the interrupt mask, and the  *)
(* accesses still to perform (q).                                          *)

\* number of ports whose reset bit is 1 in a value written to the RCC reset
\* register, per port
Pulsed(cnt, rstval) ==
    [p \in Ports |-> cnt[p] + rstval[PortBit(p)]]

\* width in bits of the fields of a register
FieldBits(per, reg) ==
    CASE per = "gpio" /\ reg \in {"moder", "ospeedr", "pupdr"} -> 2
      [] per = "gpio" /\ reg \in {"afrl", "afrh"}              -> 4
      [] per = "syscfg"                                        -> 4
      [] per = "exti" /\ reg \in {"exticr1", "exticr2", "exticr3", "exticr4"} -> 8
      [] OTHER                                                 -> 1

\* the write half of `modify`: the value read, with one field replaced
ExecWrite(s, i) ==
    LET v  == [s.tmp EXCEPT ![i.fld] = i.val % (2 ^ FieldBits(i.per, i.reg))]
        h1 == RegPut(s.hw, i.per, i.port, i.reg, v)
        isRst == i.per = "rcc" /\ i.reg = "rst"
    IN  [s EXCEPT !.hw = IF isRst THEN PortReset(h1, v) ELSE h1,
                  !.pulses = IF isRst THEN Pulsed(@, v) ELSE @,
                  !.trace = Append(@, i),
                  !.q = Tail(s.q)]

ExecStore(s, i) ==
    [s EXCEPT !.hw.gpio[i.port].odr = BsrrEffect(@, i.fld),
              !.trace = Append(@, i),
              !.q = Tail(s.q)]

ExecIfClear(s, i) ==
    LET rest == Tail(s.q)
        v    == RegGet(s.hw, i.per, i.port, i.reg)
    IN  [s EXCEPT !.trace = Append(@, i),
                  !.q = IF v[i.fld] = 0 THEN rest
                        ELSE SubSeq(rest, i.val + 1, Len(rest))]

ExecInput(s, i) ==
    [s EXCEPT !.ret = IF Idr(s.hw, s.ext, i.port, i.fld) = 1 THEN "true" ELSE "false",
              !.trace = Append(@, i),
              !.q = Tail(s.q)]

ExecIfSet(s, i) ==
    LET rest == Tail(s.q) IN
    [s EXCEPT !.q = IF s.ret = "true" THEN SubSeq(rest, 1, i.val)
                    ELSE SubSeq(rest, i.val + 1, Len(rest))]

StepOf(s) ==
    LET i == Head(s.q) IN
    CASE i.k = "panic"    -> [s EXCEPT !.panicked = TRUE, !.q = <<>>]
      [] i.k = "input"    -> ExecInput(s, i)
      [] i.k = "ifset"    -> ExecIfSet(s, i)
      [] i.k = "asstate"  -> [s EXCEPT !.ret = IF @ = "true" THEN "High" ELSE "Low",
                                       !.q = Tail(s.q)]
      [] i.k = "read"     -> [s EXCEPT !.tmp = RegGet(s.hw, i.per, i.port, i.reg),
                                       !.trace = Append(@, i),
                                       !.q = Tail(s.q)]
      [] i.k = "write"    -> ExecWrite(s, i)
      [] i.k = "store"    -> ExecStore(s, i)
      [] i.k = "ifclear"  -> ExecIfClear(s, i)
      [] i.k = "cs_enter" -> [s EXCEPT !.primask = TRUE, !.q = Tail(s.q)]
      [] i.k = "cs_exit"  -> [s EXCEPT !.primask = FALSE, !.q = Tail(s.q)]

RECURSIVE RunAll(_)
RunAll(s) == IF s.q = <<>> THEN s ELSE RunAll(StepOf(s))

----------------------------------------------------------------------------
(* The macros that dispatch on the pin number. *)

\* the pin numbers the macros list: [0, 1, .., 15]
PinNums == 0..15

\* set_field! without the panic arm: the pin number wraps
set_field_wrap(r, pin, reg, val) ==
    Modify("gpio", r, reg, pin % 16, val)

\* set_field! with the arms shifted by one pin
set_field_shift(r, pin, reg, val) ==
    IF pin \in PinNums THEN Modify("gpio", r, reg, (pin + 1) % 16, val) ELSE <<Panic>>

set_field(r, pin, reg, val) ==
    IF pin \in PinNums THEN Modify("gpio", r, reg, pin, val) ELSE <<Panic>>

\* [(0, l), .., (7, l), (8, h), .., (15, h)]
AltList ==
    <<"l", "l", "l", "l", "l", "l", "l", "l", "h", "h", "h", "h", "h", "h", "h", "h">>

\* every arm on the low bank
AfrReg_low(num) == "afrl"

AfrReg(num) == IF AltList[num + 1] = "l" THEN "afrl" ELSE "afrh"

\* position in AFRL / AFRH of the field afrl<num>, afrh<num>, afsel<num>, afr<num>
AfrField(num) == num % 8

\* set_alt! that writes the function only into a field that holds none
set_alt_keep(r, pin, val) ==
    IF pin \in PinNums
    THEN Modify("gpio", r, "moder", pin, PinModeVal(Alt(0)))
         \o (IF hw.gpio[r][AfrReg(pin)][AfrField(pin)] = 0
             THEN Modify("gpio", r, AfrReg(pin), AfrField(pin), val) ELSE <<>>)
    ELSE <<Panic>>

set_alt(r, pin, val) ==
    IF pin \in PinNums
    THEN Modify("gpio", r, "moder", pin, PinModeVal(Alt(0)))
         \o Modify("gpio", r, AfrReg(pin), AfrField(pin), val)
    ELSE <<Panic>>

\* 1 << (offset + num)
BsrrBit(offset, num) == offset + num

\* the output set by a read-modify-write of the output data register
set_state_rmw(r, pin, offset) ==
    IF pin \in PinNums
    THEN Modify("gpio", r, "odr", pin, IF offset = 0 THEN 1 ELSE 0)
    ELSE <<Panic>>

set_state_mac(r, pin, offset) ==
    IF pin \in PinNums THEN <<Store(r, "bsrr", BsrrBit(offset, pin))>> ELSE <<Panic>>

\* [(0, 1), (1, 1), (2, 1), (3, 1), (4, 2), .., (15, 4)]: the register number
CrNumList == <<1, 1, 1, 1, 2, 2, 2, 2, 3, 3, 3, 3, 4, 4, 4, 4>>

\* [(0, 1, 0_7), .., (7, 2, 0_7), (8, 3, 8_15), .., (15, 4, 8_15)]: the field
Num2List ==
    <<"0_7", "0_7", "0_7", "0_7", "0_7", "0_7", "0_7", "0_7",
      "8_15", "8_15", "8_15", "8_15", "8_15", "8_15", "8_15", "8_15">>

ExtiCrReg(crnum) ==
    CASE crnum = 1 -> "exticr1" [] crnum = 2 -> "exticr2"
      [] crnum = 3 -> "exticr3" [] crnum = 4 -> "exticr4"

\* position in its EXTICR register of the field exti<num>
ExtiField(num) == num % 4

\* position in its EXTICR register of the field exti0_7 and of exti8_15
\* (the fields of these families are named by the bits they occupy)
ExtiField2(num2) == IF num2 = "0_7" THEN 0 ELSE 1

TriggerBit(trigger) == BoolBit(trigger)
\* the falling trigger written like the rising one
NotTriggerBit_same(trigger) == BoolBit(trigger)

NotTriggerBit(trigger) == BoolBit(~trigger)

\* set_exti! with the routing code written first
set_exti_route_first(pin, trigger, val) ==
    IF pin \in PinNums
    THEN Modify("syscfg", "-", ExtiCrReg(CrNumList[pin + 1]), ExtiField(pin), val)
         \o Modify("exti", "-", "imr", pin, 1)
         \o Modify("exti", "-", "rtsr", pin, TriggerBit(trigger))
         \o Modify("exti", "-", "ftsr", pin, NotTriggerBit(trigger))
    ELSE <<Panic>>

set_exti(pin, trigger, val) ==
    IF pin \in PinNums
    THEN Modify("exti", "-", "imr", pin, 1)
         \o Modify("exti", "-", "rtsr", pin, TriggerBit(trigger))
         \o Modify("exti", "-", "ftsr", pin, NotTriggerBit(trigger))
         \o Modify("syscfg", "-", ExtiCrReg(CrNumList[pin + 1]), ExtiField(pin), val)
    ELSE <<Panic>>

\* set_exti_f4! with the rising trigger of the next line written
set_exti_f4_next(pin, trigger, val) ==
    IF pin \in PinNums
    THEN Modify("exti", "-", "imr", pin, 1)
         \o Modify("exti", "-", "rtsr", (pin + 1) % 16, TriggerBit(trigger))
         \o Modify("exti", "-", "ftsr", pin, NotTriggerBit(trigger))
         \o Modify("syscfg", "-", ExtiCrReg(CrNumList[pin + 1]), ExtiField(pin), val)
    ELSE <<Panic>>

set_exti_f4(pin, trigger, val) ==
    IF pin \in PinNums
    THEN Modify("exti", "-", "imr", pin, 1)
         \o Modify("exti", "-", "rtsr", pin, TriggerBit(trigger))
         \o Modify("exti", "-", "ftsr", pin, NotTriggerBit(trigger))
         \o Modify("syscfg", "-", ExtiCrReg(CrNumList[pin + 1]), ExtiField(pin), val)
    ELSE <<Panic>>

set_exti_l5(pin, trigger, val) ==
    IF pin \in PinNums
    THEN Modify("exti", "-", "imr", pin, 1)
         \o Modify("exti", "-", "rtsr", pin, TriggerBit(trigger))
         \o Modify("exti", "-", "ftsr", pin, NotTriggerBit(trigger))
         \o Modify("exti", "-", ExtiCrReg(CrNumList[pin + 1]),
                   ExtiField2(Num2List[pin + 1]), val)
    ELSE <<Panic>>

set_exti_g0(pin, trigger, val) ==
    IF pin \in PinNums
    THEN Modify("exti", "-", "imr", pin, 1)
         \o Modify("exti", "-", "rtsr", pin, TriggerBit(trigger))
         \o Modify("exti", "-", "ftsr", pin, NotTriggerBit(trigger))
         \o Modify("exti", "-", ExtiCrReg(CrNumList[pin + 1]),
                   ExtiField2(Num2List[pin + 1]), val)
    ELSE <<Panic>>

----------------------------------------------------------------------------
(* The methods of Pin and the free functions, as sequences of accesses.    *)
(* self is a Pin: [port, pin].                                             *)

Pin_alt_fn(self, value) ==
    Check(value <= 15) \o set_alt(regs(self.port), self.pin, value)

\* mode that clears the alternate function when it selects another mode
Pin_mode_clear_af(self, value) ==
    set_field(regs(self.port), self.pin, "moder", PinModeVal(value))
    \o (IF value.k = "Alt" THEN Pin_alt_fn(self, value.f)
        ELSE IF self.pin \in PinNums
        THEN Modify("gpio", regs(self.port), AfrReg(self.pin), AfrField(self.pin), 0)
        ELSE <<>>)

Pin_mode(self, value) ==
    set_field(regs(self.port), self.pin, "moder", PinModeVal(value))
    \o (IF value.k = "Alt" THEN Pin_alt_fn(self, value.f) ELSE <<>>)

Pin_output_type(self, value) ==
    set_field(regs(self.port), self.pin, "otyper", value)

Pin_output_speed(self, value) ==
    set_field(regs(self.port), self.pin, "ospeedr", value)

Pin_pull(self, value) ==
    set_field(regs(self.port), self.pin, "pupdr", value)

Pin_cfg_lock(self, value) ==
    set_field(regs(self.port), self.pin, "lckr", value)

get_input_data(r, pin) ==
    IF pin \in PinNums THEN <<RdIdr(r, pin)>> ELSE <<Panic>>

Pin_get_state(self) ==
    get_input_data(regs(self.port), self.pin) \o <<AsState>>

Pin_is_high(self) ==
    get_input_data(regs(self.port), self.pin)

is_high(port, pin) ==
    get_input_data(regs(port), pin)

\* the two offsets exchanged
StateOffset_swapped(value) == IF value = "Low" THEN 0 ELSE 16

StateOffset(value) == IF value = "Low" THEN 16 ELSE 0

Pin_set_state(self, value) ==
    set_state_mac(regs(self.port), self.pin, StateOffset(value))

Pin_set_high(self) == Pin_set_state(self, "High")
Pin_set_low(self)  == Pin_set_state(self, "Low")

\* toggle as a read-modify-write of the output data register
Pin_toggle_odr(self) ==
    IF self.pin \in PinNums
    THEN Modify("gpio", regs(self.port), "odr", self.pin,
                1 - hw.gpio[regs(self.port)].odr[self.pin])
    ELSE <<Panic>>

\* toggle with the two branches exchanged
Pin_toggle_same(self) ==
    Pin_is_high(self)
    \o <<IfSet(Len(Pin_set_high(self)))>> \o Pin_set_high(self) \o Pin_set_low(self)

\* if self.is_high() { Pin::set_low(self) } else { Pin::set_high(self) }
Pin_toggle(self) ==
    Pin_is_high(self)
    \o <<IfSet(Len(Pin_set_low(self)))>> \o Pin_set_low(self) \o Pin_set_high(self)

set_state(port, pin, value) ==
    set_state_mac(regs(port), pin, StateOffset(value))

set_high(port, pin) == set_state(port, pin, "High")
set_low(port, pin)  == set_state(port, pin, "Low")

Pin_enable_interrupt(fam, self, edge) ==
    LET rise_trigger == (edge = "Rising") IN
    CASE fam = "g0" -> set_exti_g0(self.pin, rise_trigger, cr_val(self.port))
      [] fam = "l5" -> set_exti_l5(self.pin, rise_trigger, cr_val(self.port))
      [] fam = "f4" -> set_exti_f4(self.pin, rise_trigger, cr_val(self.port))
      [] OTHER      -> set_exti(self.pin, rise_trigger, cr_val(self.port))

\* the port whose enable flag the arm of `match port` tests
RccTest(fam, port) ==
    CASE port = "G" -> "H"
      [] OTHER      -> port

\* the port whose enable and reset bits the arm of `match port` writes
RccPeriph(fam, port) ==
    CASE port = "G" /\ fam = "f3"             -> "G"
      [] port = "G" /\ fam \in {"h7", "f4", "g0"} -> "H"
      [] port = "G"                           -> "A"
      [] port = "H" /\ fam \in {"f3", "h7", "f4", "g0"} -> "H"
      [] port = "H"                           -> "A"
      [] OTHER                                -> port

\* rcc_en_reset!(bus, periph, rcc) of the crate root: set the enable bit,
\* set the reset bit, clear the reset bit
rcc_en_reset(periph) ==
    Modify("rcc", "-", "en", PortBit(periph), 1)
    \o Modify("rcc", "-", "rst", PortBit(periph), 1)
    \o Modify("rcc", "-", "rst", PortBit(periph), 0)

\* the same three lines, written out in the h7 and g0 branches
en_reset_inline(periph) ==
    Modify("rcc", "-", "en", PortBit(periph), 1)
    \o Modify("rcc", "-", "rst", PortBit(periph), 1)
    \o Modify("rcc", "-", "rst", PortBit(periph), 0)

RccArm(fam, port) ==
    LET body == IF fam \in {"h7", "g0"}
                THEN en_reset_inline(RccPeriph(fam, port))
                ELSE rcc_en_reset(RccPeriph(fam, port))
    IN
    <<IfClear("rcc", "en", PortBit(RccTest(fam, port)), Len(body))>> \o body
    \o (IF port = "G" /\ fam = "l5" THEN Modify("pwr", "-", "cr2", 0, 1) ELSE <<>>)

Pin_new(fam, port, pin, mode) ==
    Check(pin <= 15)
    \o <<CsEnter>> \o RccArm(fam, port) \o <<CsExit>>
    \o Pin_mode([port |-> port, pin |-> pin], mode)

----------------------------------------------------------------------------
(* The firmware: a main flow that owns two Pin values and calls the module. *)

Pin(port, pin) == [port |-> port, pin |-> pin]

Arg(k, f) == [k |-> k, f |-> f]
\* a call: its name, the pin it is made on, its argument, and the number
\* of the call of the main flow it is (a handler's: the one it interrupts
\* or follows)
OpAt(name, self, arg, at) ==
    [op |-> name, port |-> self.port, pin |-> self.pin, arg |-> arg, at |-> at]
Op(name, self, arg) == OpAt(name, self, arg, calls + 1)
IrqOp(name, self, arg) == OpAt(name, self, arg, calls)
NoOp == [op |-> "none", port |-> "-", pin |-> 0, arg |-> Arg("-", 0), at |-> 0]

NoObs == [k |-> "none", call |-> 0, port |-> "-", pin |-> 0, moder |-> 0, af |-> 0]

Machine(prog) ==
    [hw |-> hw, tmp |-> tmp, primask |-> primask, panicked |-> FALSE,
     trace |-> <<>>, pulses |-> pulses, ext |-> ext, ret |-> ret, q |-> prog]

\* the main flow makes a call and the call runs to its end (or to its panic)
DoCall(op, prog) ==
    /\ ~panicked
    /\ pc = <<>>
    /\ calls < MaxCalls
    /\ LET r == RunAll(Machine(prog)) IN
        /\ hw' = r.hw
        /\ tmp' = r.tmp
        /\ primask' = r.primask
        /\ panicked' = r.panicked
        /\ trace' = r.trace
        /\ pulses' = r.pulses
        /\ made' = IF op.op = "new" /\ ~r.panicked THEN made \cup {op.port} ELSE made
        /\ ret' = r.ret
    /\ pc' = <<>>
    /\ last' = op
    /\ calls' = calls + 1
    /\ UNCHANGED <<family, pinA, pinB, hlast, irqs, obs, ext, hpos>>

Pins == {pinA, pinB}

\* the alternate functions the firmware asks for: every bit of the field
\* both ways, and the numbers above 15
AltInputs == {0, 3, 12, 15} \cup (16..MaxAltInput)
ModeInputs == {Input, Output, Analog} \cup {Alt(n) : n \in AltInputs}

CallNewWith(modes) ==
    \E self \in Pins, m \in modes :
        DoCall(Op("new", self, m), Pin_new(family, self.port, self.pin, m))

CallNew == CallNewWith(ModeInputs)

\* Pin::new of an output and of a pin with an alternate function
CallNewPin == CallNewWith({Output, Alt(3)})

CallMode ==
    \E self \in Pins, m \in ModeInputs :
        DoCall(Op("mode", self, m), Pin_mode(self, m))

CallOutputType ==
    \E self \in Pins, v \in OutputTypes :
        DoCall(Op("output_type", self, Arg("OutputType", v)), Pin_output_type(self, v))

CallOutputSpeed ==
    \E self \in Pins, v \in OutputSpeeds :
        DoCall(Op("output_speed", self, Arg("OutputSpeed", v)), Pin_output_speed(self, v))

CallPull ==
    \E self \in Pins, v \in Pulls :
        DoCall(Op("pull", self, Arg("Pull", v)), Pin_pull(self, v))

CallCfgLock ==
    \E self \in Pins, v \in CfgLocks :
        DoCall(Op("cfg_lock", self, Arg("CfgLock", v)), Pin_cfg_lock(self, v))

CallSetState ==
    \E self \in Pins, v \in PinStates :
        DoCall(Op("set_state", self, Arg(v, 0)), Pin_set_state(self, v))

CallSetHigh ==
    \E self \in Pins :
        DoCall(Op("set_high", self, Arg("High", 0)), set_high(self.port, self.pin))

CallSetLow ==
    \E self \in Pins :
        DoCall(Op("set_low", self, Arg("Low", 0)), set_low(self.port, self.pin))

CallGetState ==
    \E self \in Pins :
        DoCall(Op("get_state", self, Arg("-", 0)), Pin_get_state(self))

CallToggle ==
    \E self \in Pins :
        DoCall(Op("toggle", self, Arg("-", 0)), Pin_toggle(self))

CallEnableInterrupt ==
    \E self \in Pins, e \in Edges :
        DoCall(Op("enable_interrupt", self, Arg(e, 0)),
               Pin_enable_interrupt(family, self, e))

----------------------------------------------------------------------------
(* The main flow access by access, and interrupt handlers in between.  A  *)
(* handler runs when interrupts are not masked, and runs to its end before *)
(* the main flow continues.                                                *)

\* the main flow enters a call
StartCall(op, prog) ==
    /\ ~panicked
    /\ pc = <<>>
    /\ calls < MaxCalls
    /\ pc' = prog
    /\ trace' = <<>>
    /\ last' = op
    /\ calls' = calls + 1
    /\ UNCHANGED <<family, pinA, pinB, hw, tmp, primask, panicked, pulses, made,
                   hlast, irqs, obs, ext, ret, hpos>>

\* the main flow makes the next access of its call
MainStep ==
    /\ ~panicked
    /\ pc # <<>>
    /\ LET r == StepOf([Machine(pc) EXCEPT !.trace = trace]) IN
        /\ hw' = r.hw
        /\ tmp' = r.tmp
        /\ primask' = r.primask
        /\ panicked' = r.panicked
        /\ trace' = r.trace
        /\ pulses' = r.pulses
        /\ pc' = r.q
        /\ made' = IF r.q = <<>> /\ last.op = "new" /\ ~r.panicked
                   THEN made \cup {last.port} ELSE made
        /\ ret' = r.ret
    /\ UNCHANGED <<family, pinA, pinB, last, calls, hlast, irqs, obs, ext, hpos>>

\* an interrupt handler makes a call; the interrupted flow keeps the value
\* it has read
IrqCall(op, prog) ==
    /\ ~panicked
    /\ ~primask
    /\ irqs < MaxIrqs
    /\ LET r == RunAll(Machine(prog)) IN
        /\ hw' = r.hw
        /\ panicked' = r.panicked
        /\ pulses' = r.pulses
    /\ hlast' = op
    /\ irqs' = irqs + 1
    /\ UNCHANGED <<family, pinA, pinB, pc, tmp, primask, trace, made, last, calls, obs,
                   ext, ret, hpos>>

\* the same, and the point of the interrupted call is noted: the number of
\* accesses it has made, -1 between two calls
IrqCallAt(op, prog) ==
    /\ ~panicked
    /\ ~primask
    /\ irqs < MaxIrqs
    /\ LET r == RunAll(Machine(prog)) IN
        /\ hw' = r.hw
        /\ panicked' = r.panicked
        /\ pulses' = r.pulses
    /\ hlast' = op
    /\ irqs' = irqs + 1
    /\ hpos' = IF pc = <<>> THEN -1 ELSE Len(trace)
    /\ UNCHANGED <<family, pinA, pinB, pc, tmp, primask, trace, made, last, calls, obs,
                   ext, ret>>

\* an interrupt handler reads the mode and the alternate function of a pin
IrqObserve(self) ==
    /\ ~panicked
    /\ ~primask
    /\ irqs < MaxIrqs
    /\ self.pin \in PinNums
    /\ obs' = [k |-> IF pc # <<>> THEN "mid" ELSE "idle", call |-> calls,
               port |-> self.port, pin |-> self.pin,
               moder |-> hw.gpio[self.port].moder[self.pin],
               af |-> hw.gpio[self.port][AfrReg(self.pin)][AfrField(self.pin)]]
    /\ irqs' = irqs + 1
    /\ UNCHANGED <<family, pinA, pinB, hw, pc, tmp, primask, panicked, trace, pulses,
                   made, last, calls, hlast, ext, ret, hpos>>

StartMode ==
    \E m \in ModeInputs : StartCall(Op("mode", pinA, m), Pin_mode(pinA, m))

StartNew ==
    \E m \in {Output, Alt(3)} :
        StartCall(Op("new", pinA, m), Pin_new(family, pinA.port, pinA.pin, m))

StartSetState ==
    \E v \in PinStates : StartCall(Op("set_state", pinA, Arg(v, 0)), Pin_set_state(pinA, v))

IrqSetState ==
    \E v \in PinStates : IrqCall(IrqOp("set_state", pinB, Arg(v, 0)), Pin_set_state(pinB, v))

IrqObservePin == IrqObserve(pinA)

StartToggle == StartCall(Op("toggle", pinA, Arg("-", 0)), Pin_toggle(pinA))

\* handlers that drive the pin of the main flow
IrqSetHighSame == IrqCallAt(IrqOp("set_high", pinA, Arg("High", 0)), Pin_set_high(pinA))
IrqSetLowSame  == IrqCallAt(IrqOp("set_low", pinA, Arg("Low", 0)), Pin_set_low(pinA))
IrqToggleSame  == IrqCallAt(IrqOp("toggle", pinA, Arg("-", 0)), Pin_toggle(pinA))

\* the configuration calls of the main flow on pinA, access by access
StartOutputType ==
    \E v \in OutputTypes :
        StartCall(Op("output_type", pinA, Arg("OutputType", v)), Pin_output_type(pinA, v))

StartOutputSpeed ==
    \E v \in OutputSpeeds :
        StartCall(Op("output_speed", pinA, Arg("OutputSpeed", v)), Pin_output_speed(pinA, v))

StartPull ==
    \E v \in Pulls : StartCall(Op("pull", pinA, Arg("Pull", v)), Pin_pull(pinA, v))

StartCfgLock ==
    \E v \in CfgLocks :
        StartCall(Op("cfg_lock", pinA, Arg("CfgLock", v)), Pin_cfg_lock(pinA, v))

\* handlers that configure pinB, another pin of the port
IrqModeOther ==
    \E m \in {Output, Analog} : IrqCallAt(IrqOp("mode", pinB, m), Pin_mode(pinB, m))

IrqOutputTypeOther ==
    IrqCallAt(IrqOp("output_type", pinB, Arg("OutputType", 1)), Pin_output_type(pinB, 1))

IrqOutputSpeedOther ==
    IrqCallAt(IrqOp("output_speed", pinB, Arg("OutputSpeed", 3)), Pin_output_speed(pinB, 3))

IrqPullOther ==
    IrqCallAt(IrqOp("pull", pinB, Arg("Pull", 2)), Pin_pull(pinB, 2))

IrqCfgLockOther ==
    IrqCallAt(IrqOp("cfg_lock", pinB, Arg("CfgLock", 1)), Pin_cfg_lock(pinB, 1))

\* a handler constructs a pin of its own
IrqNew ==
    IrqCall(IrqOp("new", pinB, Output), Pin_new(family, pinB.port, pinB.pin, Output))

\* the main flow before its first call
InitFlow ==
    /\ pc = <<>>
    /\ tmp = Zero(1)
    /\ primask = FALSE
    /\ panicked = FALSE
    /\ trace = <<>>
    /\ pulses = [p \in Ports |-> 0]
    /\ made = {}
    /\ last = NoOp
    /\ calls = 0
    /\ hlast = NoOp
    /\ irqs = 0
    /\ obs = NoObs
    /\ ret = "-"
    /\ hpos = -1

\* the registers and the main flow right after reset; nothing outside
\* drives the pins
InitMachine(ps) ==
    /\ hw = HwInit(ps)
    /\ InitFlow
    /\ ext = [p \in {pinA, pinB} |-> 0]

PinInputs == 0..MaxPinInput

\* pins that share a register, a bank or a line with pin i
Near(i) == {(i + 1) % 16, (i + 8) % 16}

\* a second pin near the first one on the same port, or with the same
\* number on another port
PinsNear(self, others) ==
    {Pin(self.port, j) : j \in Near(self.pin)} \cup {Pin(q, self.pin) : q \in others}

\* General specification: every call of the module, on a pin of port A and
\* a second pin on port A or B.
Init ==
    /\ family \in {"f4", "l5"}
    /\ pinA \in {Pin("A", i) : i \in PinInputs}
    /\ pinB \in PinsNear(pinA, {"B"})
    /\ InitMachine({"A", "B"})

Next ==
    \/ CallNew
    \/ CallMode
    \/ CallOutputType
    \/ CallOutputSpeed
    \/ CallPull
    \/ CallCfgLock
    \/ CallSetState
    \/ CallSetHigh
    \/ CallSetLow
    \/ CallGetState
    \/ CallToggle
    \/ CallEnableInterrupt

Spec == Init /\ [][Next]_vars

\* Whole-module specification: every call of the module, on every family,
\* on a pin of port A and the pin of port B of the next line.
InitAll ==
    /\ family \in Families
    /\ pinA = Pin("A", 3)
    /\ pinB = Pin("B", 4)
    /\ InitMachine({"A", "B"})

SpecAll == InitAll /\ [][Next]_vars

\* Mode specification: the main flow selects modes and drives outputs.
InitMode ==
    /\ family = "f4"
    /\ pinA \in {Pin("A", i) : i \in PinInputs}
    /\ pinB \in PinsNear(pinA, {"B"})
    /\ InitMachine({"A", "B"})

NextMode ==
    \/ CallMode
    \/ CallSetState

SpecMode == InitMode /\ [][NextMode]_vars

\* Out-of-range specification: every call of the module, on every family,
\* on the last valid pin and on a pin with a number above 15.
InitOob ==
    /\ family \in Families
    /\ pinA = Pin("A", 15)
    /\ pinB \in {Pin("A", i) : i \in 16..MaxPinInput}
    /\ InitMachine({"A"})

SpecOob == InitOob /\ [][Next]_vars

\* Clock specification: the main flow constructs pins, on every family and
\* on every pair of ports the family has.
InitRcc ==
    /\ family \in Families
    /\ pinA \in {Pin(p, i) : p \in PortsOf(family), i \in PinInputs}
    /\ pinB \in {Pin(q, (pinA.pin + 1) % 16) : q \in PortsOf(family)}
    /\ InitMachine(Ports)

NextRcc ==
    \/ CallNewPin

SpecRcc == InitRcc /\ [][NextRcc]_vars

\* Interrupt specification: the main flow enables interrupts, on every
\* family, on a pin of any port and a second pin near it or on port A or B.
InitExti ==
    /\ family \in Families
    /\ pinA \in {Pin(p, i) : p \in PortsOf(family), i \in PinInputs}
    /\ pinB \in PinsNear(pinA, {"A", "B"})
    /\ InitMachine({})

NextExti ==
    \/ CallEnableInterrupt

SpecExti == InitExti /\ [][NextExti]_vars

\* the pins the main flow drives while handlers run: the first and the last
\* pin of the port and the last pin of the low bank
IrqPins == {0, 7, 15}

\* the registers after the firmware's start-up code has, with mode,
\* output_type and set_state, made pin self an input, an output or an
\* analog pin (m), push-pull or open-drain (t), driven low or high (o)
HwConfigured(ps, self, m, t, o) ==
    IF self.pin \in PinNums
    THEN [HwInit(ps) EXCEPT !.gpio[self.port].moder[self.pin] = PinModeVal(m),
                            !.gpio[self.port].otyper[self.pin] = t,
                            !.gpio[self.port].odr[self.pin] = o]
    ELSE HwInit(ps)

\* Input/output specification: the main flow selects modes and output
\* types, drives and reads pinA and a second pin of the port; the board
\* holds pinA at a level of its own.
InitIo ==
    /\ family = "f4"
    /\ pinA \in {Pin("A", i) : i \in IrqPins}
    /\ pinB \in {Pin("A", j) : j \in Near(pinA.pin)}
    /\ ext \in [{pinA} -> {0, 1}]
    /\ \E m \in {Input, Output, Analog}, t \in OutputTypes, o \in {0, 1} :
          hw = HwConfigured({"A"}, pinA, m, t, o)
    /\ InitFlow

NextIo ==
    \/ CallMode
    \/ CallOutputType
    \/ CallSetState
    \/ CallGetState
    \/ CallToggle

SpecIo == InitIo /\ [][NextIo]_vars

\* the registers after the firmware's start-up code has, with mode(Alt(f))
\* and then mode(m), given pin self the alternate function f and the mode m
HwAlt(ps, self, f, m) ==
    [HwInit(ps) EXCEPT !.gpio[self.port].moder[self.pin] = PinModeVal(m),
                       !.gpio[self.port][AfrReg(self.pin)][AfrField(self.pin)] = f]

\* Alternate function specification: the main flow selects modes on pinA,
\* which has had an alternate function before, and on a second pin.
InitAlt ==
    /\ family = "f4"
    /\ pinA \in {Pin("A", i) : i \in IrqPins}
    /\ pinB \in PinsNear(pinA, {"B"})
    /\ \E f \in {0, 3, 12, 15}, m \in {Input, Output, Analog, Alt(0)} :
          hw = HwAlt({"A", "B"}, pinA, f, m)
    /\ InitFlow
    /\ ext = [p \in {pinA, pinB} |-> 0]

NextAlt ==
    \/ CallMode

SpecAlt == InitAlt /\ [][NextAlt]_vars

\* Configuration specification: the main flow configures and drives pinA,
\* which the start-up code may have made an open-drain output driven high,
\* and a second pin of the port.
InitCfg ==
    /\ family = "f4"
    /\ pinA \in {Pin("A", i) : i \in IrqPins}
    /\ pinB \in {Pin("A", j) : j \in Near(pinA.pin)}
    /\ hw \in {HwInit({"A"}), HwConfigured({"A"}, pinA, Output, 1, 1)}
    /\ InitFlow
    /\ ext = [p \in {pinA, pinB} |-> 0]

NextCfg ==
    \/ CallMode
    \/ CallOutputType
    \/ CallOutputSpeed
    \/ CallPull
    \/ CallCfgLock
    \/ CallSetState

SpecCfg == InitCfg /\ [][NextCfg]_vars

\* Interrupt-context specification: the main flow configures and drives
\* pinA access by access; handlers drive pinB, another pin of the same
\* port, and read the configuration of pinA.
InitIrq ==
    /\ family = "f4"
    /\ pinA \in {Pin("A", i) : i \in IrqPins}
    /\ pinB \in {Pin("A", j) : j \in Near(pinA.pin)}
    /\ InitMachine({"A"})

NextIrq ==
    \/ StartMode
    \/ StartNew
    \/ StartSetState
    \/ MainStep
    \/ IrqSetState
    \/ IrqObservePin

SpecIrq == InitIrq /\ [][NextIrq]_vars

\* Toggle specification: the main flow toggles pinA, an input or an output,
\* access by access; handlers set, reset and toggle the same pin.
InitToggleIrq ==
    /\ family = "f4"
    /\ pinA \in {Pin("A", i) : i \in IrqPins}
    /\ pinB \in {Pin("A", j) : j \in Near(pinA.pin)}
    /\ ext \in [{pinA} -> {0, 1}]
    /\ \E m \in {Input, Output}, t \in OutputTypes, o \in {0, 1} :
          hw = HwConfigured({"A"}, pinA, m, t, o)
    /\ InitFlow

NextToggleIrq ==
    \/ StartToggle
    \/ MainStep
    \/ IrqSetHighSame
    \/ IrqSetLowSame
    \/ IrqToggleSame

SpecToggleIrq == InitToggleIrq /\ [][NextToggleIrq]_vars

\* Configuration specification: the main flow configures pinA access by
\* access; handlers configure pinB, another pin of the same port.
InitCfgIrq ==
    /\ family = "f4"
    /\ pinA \in {Pin("A", i) : i \in IrqPins}
    /\ pinB \in {Pin("A", j) : j \in Near(pinA.pin)}
    /\ InitMachine({"A"})

NextCfgIrq ==
    \/ StartMode
    \/ StartOutputType
    \/ StartOutputSpeed
    \/ StartPull
    \/ StartCfgLock
    \/ MainStep
    \/ IrqModeOther
    \/ IrqOutputTypeOther
    \/ IrqOutputSpeedOther
    \/ IrqPullOther
    \/ IrqCfgLockOther

SpecCfgIrq == InitCfgIrq /\ [][NextCfgIrq]_vars

\* Construction specification: the main flow constructs pinA access by
\* access, a handler constructs pinB, a pin of the same port, on every
\* family and every port the family has.
InitNewIrq ==
    /\ family \in Families
    /\ pinA \in {Pin(p, i) : p \in PortsOf(family), i \in {0, 15}}
    /\ pinB = Pin(pinA.port, (pinA.pin + 1) % 16)
    /\ InitMachine({pinA.port})

NextNewIrq ==
    \/ StartNew
    \/ MainStep
    \/ IrqNew

SpecNewIrq == InitNewIrq /\ [][NextNewIrq]_vars

----------------------------------------------------------------------------
(* Properties. *)

IsWrite(a) == a.k \in {"write", "store"}
NoWrite(t) == \A n \in 1..Len(t) : ~IsWrite(t[n])

Moder(h, port) == h.gpio[port].moder

\* C1: selecting an alternate function above 15, by mode or by new, aborts
\* and no register write precedes the abort.
C1_AltAbortsBeforeAnyWrite ==
    (last.op \in {"mode", "new"} /\ last.arg.k = "Alt" /\ last.arg.f > 15)
        => (panicked /\ NoWrite(trace))

\* C2: a call of any configuration or I/O operation with a pin number above
\* 15 aborts, and it writes no register before it aborts.
C2_PinAbove15AbortsBeforeAnyWrite ==
    (last.op # "none" /\ last.pin > 15) => (panicked /\ NoWrite(trace))

C2_Witness ==
    /\ last.op = "enable_interrupt"
    /\ last.pin > 15
    /\ panicked
    /\ calls = 2
    /\ hw # HwInit({"A"})

\* the encodings of GPIOx_MODER
C6_Enc(m) ==
    CASE m.k = "Input" -> 0 [] m.k = "Output" -> 1
      [] m.k = "Alt" -> 2 [] m.k = "Analog" -> 3

\* C6: after mode(m) on pin i the mode field of pin i holds the encoding of
\* m, and the mode fields of the other pins of the port are as before.
C6_ModeReadsBack ==
    [][(last'.op = "mode" /\ calls' = calls + 1 /\ ~panicked')
        => /\ Moder(hw', last'.port)[last'.pin] = C6_Enc(last'.arg)
           /\ \A j \in 0..15 :
                j # last'.pin => Moder(hw', last'.port)[j] = Moder(hw, last'.port)[j]
      ]_vars

C6_Witness ==
    /\ last.op = "mode"
    /\ last.arg = Analog
    /\ ~panicked
    /\ Moder(hw, last.port)[last.pin] = 3
    /\ \E j \in 0..15 : j # last.pin /\ Moder(hw, last.port)[j] = 1

\* the alternate function field of pin i: bank and position
C7_Bank(i) == IF i <= 7 THEN "afrl" ELSE "afrh"
C7_Field(h, port, i) == h.gpio[port][C7_Bank(i)][i % 8]

\* C7: after mode(Alt(f)) on pin i, the field of pin i (low bank for 0-7,
\* high bank for 8-15, position i mod 8) holds f, and the field of every
\* other pin, that of pin i XOR 8 included, is as before.
C7_AltFnReadsBack ==
    [][(last'.op = "mode" /\ last'.arg.k = "Alt" /\ calls' = calls + 1 /\ ~panicked')
        => /\ C7_Field(hw', last'.port, last'.pin) = last'.arg.f
           /\ \A j \in 0..15 :
                j # last'.pin
                    => C7_Field(hw', last'.port, j) = C7_Field(hw, last'.port, j)
      ]_vars

C7_Witness ==
    /\ last.op = "mode"
    /\ last.arg = Alt(12)
    /\ ~panicked
    /\ last.pin >= 8
    /\ C7_Field(hw, last.port, last.pin) = 12
    /\ C7_Field(hw, last.port, last.pin - 8) = 3

\* C4: after Pin::new(P, i, mode) has returned, the clock enable bit of
\* port P is set.
C4_NewEnablesOwnClock ==
    (last.op = "new" /\ ~panicked) => hw.rcc.en[PortBit(last.port)] = 1

\* the configuration of pin j of a port
C5_Cfg(h, port, j) ==
    <<h.gpio[port].moder[j], C7_Field(h, port, j)>>

\* C5: a Pin::new on a port not used before sets that port's reset bit
\* once; a Pin::new on a port used before does not set it again, and the
\* configuration of the other pins of the port stays.
C5_EnableResetOncePerPort ==
    [][(last'.op = "new" /\ calls' = calls + 1 /\ ~panicked')
        => IF last'.port \in made
           THEN /\ pulses'[last'.port] = pulses[last'.port]
                /\ \A j \in 0..15 :
                     j # last'.pin
                        => C5_Cfg(hw', last'.port, j) = C5_Cfg(hw, last'.port, j)
           ELSE pulses'[last'.port] = pulses[last'.port] + 1
      ]_vars

\* the routing registers: in EXTI on g0 and l5, in SYSCFG elsewhere
C8_Exticr(h, fam) == IF fam \in {"g0", "l5"} THEN h.exti ELSE h.syscfg
C8_Regs == <<"exticr1", "exticr2", "exticr3", "exticr4">>
C8_Code(p) ==
    CASE p = "A" -> 0 [] p = "B" -> 1 [] p = "C" -> 2 [] p = "D" -> 3
      [] p = "E" -> 4 [] p = "F" -> 5 [] p = "G" -> 6 [] p = "H" -> 7
\* the port code line i is routed to
C8_Route(h, fam, i) == C8_Exticr(h, fam)[C8_Regs[(i \div 4) + 1]][i % 4]

\* C8: enable_interrupt on pin i of port P writes P's code into sub-field
\* i mod 4 of control register i/4 and leaves every other routing
\* sub-field as it was, on every family.
C8_RoutesOwnLineOnly ==
    [][(last'.op = "enable_interrupt" /\ calls' = calls + 1 /\ ~panicked')
        => /\ C8_Route(hw', family, last'.pin) = C8_Code(last'.port)
           /\ \A j \in 0..15 :
                j # last'.pin => C8_Route(hw', family, j) = C8_Route(hw, family, j)
      ]_vars

\* C9: after enable_interrupt(Rising) on pin i the rising trigger bit of
\* line i is set and the falling one clear; after enable_interrupt(Falling)
\* the rising one is clear and the falling one set.
C9_EdgeBitsComplementary ==
    (last.op = "enable_interrupt" /\ ~panicked)
        => /\ hw.exti.rtsr[last.pin] = (IF last.arg.k = "Rising" THEN 1 ELSE 0)
           /\ hw.exti.ftsr[last.pin] = (IF last.arg.k = "Rising" THEN 0 ELSE 1)

C9_Witness ==
    /\ last.op = "enable_interrupt"
    /\ last.arg.k = "Falling"
    /\ ~panicked
    /\ calls = 2
    /\ hw.exti.ftsr[last.pin] = 1
    /\ hw.exti.rtsr[last.pin] = 0
    /\ \E j \in 0..15 : j # last.pin /\ hw.exti.rtsr[j] = 1 /\ hw.exti.ftsr[j] = 0

\* C3: an interrupt handler that runs during mode(Alt(f)) on a pin, also
\* when Pin::new makes that call, never reads the pin's mode field at the
\* alternate encoding together with an alternate function field other
\* than f.
C3_NoPartialAltSeen ==
    (/\ obs.k = "mid"
     /\ obs.call = calls
     /\ last.op \in {"mode", "new"}
     /\ last.arg.k = "Alt"
     /\ obs.port = last.port
     /\ obs.pin = last.pin)
        => ~(obs.moder = 2 /\ obs.af # last.arg.f)

C10_Level(v) == IF v = "High" THEN 1 ELSE 0
C10_Bit(v, i) == IF v = "High" THEN i ELSE i + 16
C10_Odr(h, port) == h.gpio[port].odr

\* C10: a completed set_state on pin i has made one access, a write of the
\* set/reset register with only bit i (High) or bit i + 16 (Low) set; that
\* write changes the output of no other pin; and when a handler's set_state
\* on another pin of the port ran during the call, before or after the
\* write, each of the two pins has the level written to it.
C10_SetStateOneWriteIsolated ==
    /\ [](/\ (last.op = "set_state" /\ pc = <<>> /\ ~panicked)
              => /\ Len(trace) = 1
                 /\ trace[1].k = "store"
                 /\ trace[1].reg = "bsrr"
                 /\ trace[1].port = last.port
                 /\ trace[1].fld = C10_Bit(last.arg.k, last.pin)
                 /\ C10_Odr(hw, last.port)[last.pin] = C10_Level(last.arg.k)
          /\ (/\ last.op = "set_state" /\ pc = <<>> /\ ~panicked
              /\ hlast.op = "set_state" /\ hlast.at = last.at)
              => C10_Odr(hw, hlast.port)[hlast.pin] = C10_Level(hlast.arg.k))
    /\ [][(last.op = "set_state" /\ pc # <<>> /\ pc' = <<>> /\ ~panicked')
            => \A j \in 0..15 :
                 j # last.pin => C10_Odr(hw', last.port)[j] = C10_Odr(hw, last.port)[j]
         ]_vars

\* a handler has set pinB high during the main flow's set_state(Low) on pinA
C10_Witness ==
    /\ last.op = "set_state"
    /\ last.arg.k = "Low"
    /\ pc = <<>>
    /\ ~panicked
    /\ calls = 2
    /\ Len(trace) = 1
    /\ hlast.op = "set_state"
    /\ hlast.at = last.at
    /\ hlast.arg.k = "High"
    /\ hlast.port = last.port
    /\ hlast.pin # last.pin
    /\ C10_Odr(hw, last.port)[last.pin] = 0
    /\ C10_Odr(hw, last.port)[hlast.pin] = 1

\* C11 as claimed: for every pin, get_state() right after set_state(v)
\* returns v.
C11_SetThenGetAnyPin ==
    [][(/\ last.op = "set_state" /\ last'.op = "get_state" /\ calls' = calls + 1
        /\ last'.port = last.port /\ last'.pin = last.pin
        /\ ~panicked')
        => ret' = last.arg.k
      ]_vars

\* C11, amended: for every pin that is a push-pull output, get_state()
\* right after set_state(v) returns v.
C11_SetThenGetOutput ==
    [][(/\ last.op = "set_state" /\ last'.op = "get_state" /\ calls' = calls + 1
        /\ last'.port = last.port /\ last'.pin = last.pin
        /\ ~panicked'
        /\ IsPushPullOutput(hw, last.port, last.pin))
        => ret' = last.arg.k
      ]_vars

\* get_state has returned High on a push-pull output that set_state has
\* driven high against the level of the board
C11_Witness ==
    /\ last.op = "get_state"
    /\ calls = 2
    /\ ~panicked
    /\ ret = "High"
    /\ trace = <<RdIdr(last.port, last.pin)>>
    /\ IsPushPullOutput(hw, last.port, last.pin)
    /\ Pin(last.port, last.pin) = pinA
    /\ ext[pinA] = 0
    /\ hw = HwConfigured({"A"}, Pin(last.port, last.pin), Output, 0, 1)

\* the state of a pin: the level get_state would read
C12_Level(h, e, port, pin) == Idr(h, e, port, pin)
\* the level a read has returned
C12_Read(r) == IF r = "true" THEN 1 ELSE 0

\* C12 as claimed: a toggle() leaves the pin in the opposite state, and the
\* second of two consecutive toggle() calls leaves it in the state it had
\* before the first (the state the first one read).
C12_ToggleAnyPin ==
    [][(last'.op = "toggle" /\ calls' = calls + 1 /\ ~panicked')
        => /\ C12_Level(hw', ext', last'.port, last'.pin)
                # C12_Level(hw, ext, last'.port, last'.pin)
           /\ (last.op = "toggle" /\ last.port = last'.port /\ last.pin = last'.pin)
                => C12_Level(hw', ext', last'.port, last'.pin) = C12_Read(ret)
      ]_vars

\* C12, amended: the same, for a pin that is a push-pull output.
C12_ToggleOutput ==
    [][(/\ last'.op = "toggle" /\ calls' = calls + 1 /\ ~panicked'
        /\ IsPushPullOutput(hw, last'.port, last'.pin))
        => /\ C12_Level(hw', ext', last'.port, last'.pin)
                # C12_Level(hw, ext, last'.port, last'.pin)
           /\ (last.op = "toggle" /\ last.port = last'.port /\ last.pin = last'.pin)
                => C12_Level(hw', ext', last'.port, last'.pin) = C12_Read(ret)
      ]_vars

\* a second toggle has read a push-pull output low and driven it high again,
\* against the level of the board
C12_Witness ==
    /\ last.op = "toggle"
    /\ calls = 2
    /\ ~panicked
    /\ ret = "false"
    /\ trace = <<RdIdr(last.port, last.pin), Store(last.port, "bsrr", last.pin)>>
    /\ Pin(last.port, last.pin) = pinA
    /\ ext[pinA] = 0
    /\ hw = HwConfigured({"A"}, Pin(last.port, last.pin), Output, 0, 1)

\* C13: after enable_interrupt on pin i of port P and then on pin i of
\* another port Q, line i is routed to Q (and so no longer to P), and
\* neither call has aborted.
C13_LineRoutedToLastPort ==
    [][(/\ last.op = "enable_interrupt" /\ last'.op = "enable_interrupt"
        /\ calls' = calls + 1
        /\ last.pin \in 0..15 /\ last'.pin = last.pin /\ last'.port # last.port)
        => /\ ~panicked'
           /\ C8_Route(hw', family, last'.pin) = C8_Code(last'.port)
           /\ C8_Route(hw', family, last'.pin) # C8_Code(last.port)
      ]_vars

\* C14: mode(Alt(f)) right after mode(Alt(f)) on the same pin leaves every
\* register as it is; and after mode(Alt(f2)) the alternate function field
\* of the pin is f2, whatever function the field held and whatever mode the
\* pin was in.
C14_AltIdempotentOverwrites ==
    [][(last'.op = "mode" /\ last'.arg.k = "Alt" /\ calls' = calls + 1 /\ ~panicked')
        => /\ C7_Field(hw', last'.port, last'.pin) = last'.arg.f
           /\ Moder(hw', last'.port)[last'.pin] = 2
           /\ (last = [last' EXCEPT !.at = last.at]) => hw' = hw
      ]_vars

\* a second call has selected alternate function 3 on pinA, and the mode
\* and function fields of pinA are the only ones that differ from reset
C14_Witness ==
    /\ last.op = "mode"
    /\ last.arg = Alt(3)
    /\ calls = 2
    /\ ~panicked
    /\ last.pin = pinA.pin /\ last.port = pinA.port
    /\ hw = HwAlt({"A", "B"}, pinA, 3, Alt(0))

\* the main flow is inside the critical section of Pin::new
C15_InSection(q) ==
    /\ \E n \in 1..Len(q) : q[n].k = "cs_exit"
    /\ \A n \in 1..Len(q) : q[n].k # "cs_enter"

\* number of enable/reset sequences that have run
C15_Runs ==
    pulses["A"] + pulses["B"] + pulses["C"] + pulses["D"]
    + pulses["E"] + pulses["F"] + pulses["G"] + pulses["H"]

\* C15: interrupts are masked while the main flow is inside the critical
\* section of Pin::new, from before the test of the enable flag until after
\* the reset bit is cleared, and no handler runs then; interrupts are
\* unmasked again when Pin::new has returned; and of a Pin::new of the main
\* flow and a Pin::new of a handler for the same port, run from reset, at
\* most one runs the enable/reset sequence.
C15_EnableSequenceInOneSection ==
    /\ [](/\ C15_InSection(pc) => primask
          /\ (last.op = "new" /\ pc = <<>>) => ~primask
          /\ (/\ calls = 1 /\ last.op = "new" /\ pc = <<>> /\ ~panicked
              /\ hlast.op = "new" /\ hlast.port = last.port)
              => C15_Runs <= 1)
    /\ [][irqs' = irqs + 1 => ~C15_InSection(pc)]_vars

\* a handler has driven the pin of the main flow's toggle between the read
\* and the write of that toggle, which has completed since
C16_Raced ==
    /\ last.op = "toggle" /\ pc = <<>> /\ ~panicked
    /\ hlast.op \in {"set_high", "set_low", "toggle"}
    /\ hlast.at = last.at /\ hpos = 1
    /\ hlast.port = last.port /\ hlast.pin = last.pin

\* C16: a completed toggle has made a read of the input data register and
\* then a write of the set/reset register.  When a handler has set, reset
\* or toggled the same pin between the two, the output ends at the inverse
\* of the level the toggle read, whatever the handler wrote: not at the
\* level a set_high or set_low wrote when that is the level the toggle
\* read, and, when the handler toggled too, one change away from the level
\* the toggle read, not two.
C16_ToggleRaces ==
    /\ (last.op = "toggle" /\ pc = <<>> /\ ~panicked)
        => /\ Len(trace) = 2
           /\ trace[1] = RdIdr(last.port, last.pin)
           /\ trace[2].k = "store" /\ trace[2].reg = "bsrr" /\ trace[2].port = last.port
           /\ trace[2].fld = C10_Bit(IF ret = "true" THEN "Low" ELSE "High", last.pin)
    /\ C16_Raced
        => /\ C10_Odr(hw, last.port)[last.pin] = 1 - C12_Read(ret)
           /\ (hlast.op # "toggle" /\ C10_Level(hlast.arg.k) = C12_Read(ret))
                => C10_Odr(hw, last.port)[last.pin] # C10_Level(hlast.arg.k)

\* a push-pull output was low, the toggle of the main flow read it low, a
\* handler toggled it high, and the main flow's write has left it high: two
\* toggles, one change
C16_Witness ==
    /\ C16_Raced
    /\ hlast.op = "toggle"
    /\ ret = "false"
    /\ calls = 1
    /\ hw = HwConfigured({"A"}, pinA, Output, 0, 1)

\* the writes among the accesses of a call
C17_Writes(t) == SelectSeq(t, IsWrite)

\* C17: a completed enable_interrupt on pin i has made four writes, in this
\* order: line i of the interrupt mask register set, line i of the rising
\* trigger register, line i of the falling trigger register, and the code
\* of the port into the routing register of line i; on every family.
C17_FourWritesInOrder ==
    (last.op = "enable_interrupt" /\ ~panicked)
        => LET w == C17_Writes(trace) IN
           /\ Len(w) = 4
           /\ w[1].per = "exti" /\ w[1].reg = "imr" /\ w[1].fld = last.pin /\ w[1].val = 1
           /\ w[2].per = "exti" /\ w[2].reg = "rtsr" /\ w[2].fld = last.pin
           /\ w[3].per = "exti" /\ w[3].reg = "ftsr" /\ w[3].fld = last.pin
           /\ w[4].per = (IF family \in {"g0", "l5"} THEN "exti" ELSE "syscfg")
           /\ w[4].reg = C8_Regs[(last.pin \div 4) + 1]
           /\ w[4].val = C8_Code(last.port)

\* a second call has made its four writes, on a family with the routing
\* registers in SYSCFG
C17_Witness ==
    /\ last.op = "enable_interrupt"
    /\ ~panicked
    /\ calls = 2
    /\ family = "h7"
    /\ Len(C17_Writes(trace)) = 4
    /\ hw.exti.imr[last.pin] = 1
    /\ C8_Route(hw, family, last.pin) = C8_Code(last.port)
    /\ last.port # "A"

\* C18: the accesses Pin::new(P, ..) makes to the clock enable and reset
\* registers, the test of the enable flag included, are all on the bit of
\* port P.
C18_NewTouchesOwnPortOnly ==
    (last.op = "new" /\ ~panicked)
        => \A n \in 1..Len(trace) :
             (trace[n].per = "rcc" /\ trace[n].k \in {"ifclear", "write"})
                => trace[n].fld = PortBit(last.port)

\* the register a configuration call modifies, and the value it writes
C19_Reg(name) ==
    CASE name = "mode" -> "moder" [] name = "output_type" -> "otyper"
      [] name = "output_speed" -> "ospeedr" [] name = "pull" -> "pupdr"
      [] name = "cfg_lock" -> "lckr"
C19_Val(o) == IF o.op = "mode" THEN C6_Enc(o.arg) ELSE o.arg.f

\* C19: when a handler has configured pin j between the read and the write
\* of the main flow's configuration call on pin i of the same port and
\* register, the field of pin j holds the handler's value after the call of
\* the main flow has completed.
C19_NoLostUpdate ==
    (/\ last.op \in {"mode", "output_type", "output_speed", "pull", "cfg_lock"}
     /\ pc = <<>> /\ ~panicked
     /\ hlast.op = last.op /\ hlast.at = last.at /\ hpos = 1
     /\ hlast.port = last.port /\ hlast.pin # last.pin)
        => hw.gpio[hlast.port][C19_Reg(hlast.op)][hlast.pin] = C19_Val(hlast)

\* C20: no call of the module masks a line that is unmasked, and a call of
\* enable_interrupt on line i leaves the mask bit, the rising trigger bit
\* and the falling trigger bit of every other line as they were.
C20_MaskOnlyUnmasks ==
    [][/\ \A j \in 0..15 : hw.exti.imr[j] = 1 => hw'.exti.imr[j] = 1
       /\ (last'.op = "enable_interrupt" /\ calls' = calls + 1 /\ ~panicked')
            => \A j \in 0..15 :
                 j # last'.pin
                    => /\ hw'.exti.imr[j] = hw.exti.imr[j]
                       /\ hw'.exti.rtsr[j] = hw.exti.rtsr[j]
                       /\ hw'.exti.ftsr[j] = hw.exti.ftsr[j]
      ]_vars

\* a line unmasked for its rising edge by the first call is still so after
\* a second call has unmasked another line for its falling edge
C20_Witness ==
    /\ last.op = "enable_interrupt"
    /\ last.arg.k = "Falling"
    /\ ~panicked
    /\ calls = 2
    /\ hw.exti.imr[last.pin] = 1
    /\ \E j \in 0..15 :
         /\ j # last.pin
         /\ hw.exti.imr[j] = 1 /\ hw.exti.rtsr[j] = 1 /\ hw.exti.ftsr[j] = 0

\* the registers of a port that mode does not write
C21_Others == {"otyper", "ospeedr", "pupdr", "lckr", "odr"}

\* C21: a completed mode(m) on pin i changes, of all registers, only the
\* mode field of pin i and, when m is Alt(f), the alternate function field
\* of pin i: with another mode the alternate function field of pin i keeps
\* the value it had, and the output type, speed, pull, lock and output
\* registers of the port, the fields of the other pins, the other ports
\* and the other peripherals are as before.
C21_ModeWritesModeOnly ==
    [][(last'.op = "mode" /\ calls' = calls + 1 /\ ~panicked')
        => LET p == last'.port
               i == last'.pin
           IN  /\ \A r \in C21_Others : hw'.gpio[p][r] = hw.gpio[p][r]
               /\ \A q \in DOMAIN hw.gpio : q # p => hw'.gpio[q] = hw.gpio[q]
               /\ hw'.rcc = hw.rcc /\ hw'.exti = hw.exti
               /\ hw'.syscfg = hw.syscfg /\ hw'.pwr = hw.pwr
               /\ \A j \in 0..15 :
                    j # i => /\ Moder(hw', p)[j] = Moder(hw, p)[j]
                             /\ C7_Field(hw', p, j) = C7_Field(hw, p, j)
               /\ Moder(hw', p)[i] = C6_Enc(last'.arg)
               /\ IF last'.arg.k = "Alt"
                  THEN C7_Field(hw', p, i) = last'.arg.f
                  ELSE /\ C7_Field(hw', p, i) = C7_Field(hw, p, i)
                       /\ \A n \in 1..Len(trace') :
                            IsWrite(trace'[n]) => trace'[n].reg = "moder"
      ]_vars

\* pinA, an open-drain output driven high, has been given alternate
\* function 12 and then made an input: the function, the output type and
\* the output level are still there
C21_Witness ==
    /\ last.op = "mode"
    /\ last.arg = Input
    /\ calls = 2
    /\ ~panicked
    /\ last.port = pinA.port /\ last.pin = pinA.pin
    /\ Moder(hw, pinA.port)[pinA.pin] = 0
    /\ C7_Field(hw, pinA.port, pinA.pin) = 12
    /\ hw.gpio[pinA.port].otyper[pinA.pin] = 1
    /\ hw.gpio[pinA.port].odr[pinA.pin] = 1

====
